---------------------------- MODULE Spec2Model ----------------------------
(***************************************************************************)
(* RusTCP: the ingestion loop of src/main.rs and the connection engine of  *)
(* src/tcp.rs (Connection::accept, Connection::on_packet).                 *)
(*                                                                         *)
(* One step of the model is one iteration of the loop of main: a frame is  *)
(* read from the interface, classified, and, when it decodes as IPv4/TCP,  *)
(* looked up in the connection table and handed to on_packet (entry        *)
(* occupied) or to accept (entry vacant).                                  *)
(***************************************************************************)
EXTENDS Integers, Naturals, Sequences, FiniteSets, TLC

VARIABLES
    connections,      \* main.rs:17, the HashMap from Quad to connection
    sent,             \* the frames nic.send has written, in order
    status,           \* "running", "panicked" (a panic unwound main) or
                      \* "io_error" (main returned Err through a `?`)
    overflow_checks,  \* the build: TRUE when u32 `+` panics on overflow
                      \* (cargo's dev profile), FALSE when it wraps (release)
    last              \* history: the frame the loop handled last

vars == <<connections, sent, status, overflow_checks, last>>

-----------------------------------------------------------------------------
(* Bounds of the model.                                                    *)

\* Number of distinct remote peers (one quad each) that send frames.
NumPeers == 2
\* Largest TCP payload length of an inbound segment.
MaxPayload == 1
\* Largest window an inbound segment advertises.
MaxWindow == 2

-----------------------------------------------------------------------------
(* Program constants.                                                      *)

\* `let iss = 0;`
ISS == 0
\* `let wnd = 10;`
WND == 10
\* `nxt: 1` of the SendSequenceSpace that accept builds
SND_NXT_INIT == 1

\* u32: the sequence-number fields are 32 bits wide. A u32 is held as its
\* two 16-bit halves <<high, low>>, so that no intermediate value of the
\* arithmetic below reaches 2^31.
Half == 2^16
MaxU32 == <<Half - 1, Half - 1>>
\* The u32 whose value is the small natural n.
ToU32(n) == <<n \div Half, n % Half>>
\* a + n as a mathematical sum exceeds u32::MAX (n < 2^16).
AddOverflows(a, n) == a[1] + ((a[2] + n) \div Half) >= Half
\* (a + n) mod 2^32 (n < 2^16).
WrappingAdd(a, n) ==
    <<(a[1] + ((a[2] + n) \div Half)) % Half, (a[2] + n) % Half>>
\* (a - b) mod 2^32.
WrappingSub(a, b) ==
    LET borrow == IF a[2] < b[2] THEN 1 ELSE 0 IN
    <<(a[1] - b[1] - borrow) % Half, (a[2] - b[2]) % Half>>

-----------------------------------------------------------------------------
(* Inputs.                                                                 *)

\* The local endpoint the peers talk to (address, port), the port the peers
\* send from, and the peers' addresses.
LocalSocket == <<0, 80>>
PeerPorts == {1000}
Peers == 1..NumPeers

\* 32-bit sequence numbers that inbound segments carry: the low end and the
\* top of the range (where +1 overflows).
SeqVals == {ToU32(0), ToU32(1), MaxU32}
\* Acknowledgement numbers: ISS (acknowledges nothing) and ISS + 1
\* (acknowledges the SYN of the SYN+ACK).
AckVals == {ToU32(0), ToU32(1)}
WindowVals == {0, MaxWindow}
PayloadLens == 0..MaxPayload

\* etherparse::Ipv4HeaderSlice, the fields the program reads.
Ipv4Headers == [source : Peers, destination : {LocalSocket[1]}]

\* etherparse::TcpHeaderSlice, the fields the program reads (and the flags
\* the claims are about): every combination of SYN, ACK, RST and FIN with
\* every sequence number and window. The acknowledgement field varies on
\* the segments that have ACK set and is zero on the others.
TcpHeaders ==
    {t \in [source_port : PeerPorts, destination_port : {LocalSocket[2]},
            sequence_number : SeqVals, acknowledgment_number : AckVals,
            syn : BOOLEAN, ack : BOOLEAN, rst : BOOLEAN, fin : BOOLEAN,
            window_size : WindowVals] :
        ~t.ack => t.acknowledgment_number = ToU32(0)}

\* The payload lengths (tcp_payload.len()) that come with a header: the
\* segments with SYN or RST set carry no payload.
PayloadOf(tcp_header) ==
    IF tcp_header.syn \/ tcp_header.rst THEN {0} ELSE PayloadLens

\* A key that takes the source address from the destination field.
Quad_destination_twice(ipv4_header, tcp_header) ==
    [src |-> <<ipv4_header.destination, tcp_header.source_port>>,
     dst |-> <<ipv4_header.destination, tcp_header.destination_port>>]

\* main.rs:9-13 and 83-86: the key of the connection table.
Quad(ipv4_header, tcp_header) ==
    [src |-> <<ipv4_header.source, tcp_header.source_port>>,
     dst |-> <<ipv4_header.destination, tcp_header.destination_port>>]

\* The element of a one-element set (an Option that is Some).
The(S) == CHOOSE x \in S : TRUE

-----------------------------------------------------------------------------
(* tcp.rs: the connection engine.                                          *)

\* accept_send with una and nxt exchanged.
accept_send_swapped(iss, wnd) ==
    [iss |-> iss, una |-> ToU32(SND_NXT_INIT), nxt |-> iss, wnd |-> wnd,
     up |-> FALSE, wl1 |-> 0, wl2 |-> 0]

\* tcp.rs:181-189, the SendSequenceSpace literal of accept.
accept_send(iss, wnd) ==
    [iss |-> iss, una |-> iss, nxt |-> ToU32(SND_NXT_INIT), wnd |-> wnd,
     up |-> FALSE, wl1 |-> 0, wl2 |-> 0]

\* accept_recv that does not count the SYN: recv.nxt is the SYN's own
\* sequence number.
accept_recv_no_incr(tcp_header) ==
    [irs |-> tcp_header.sequence_number,
     nxt |-> tcp_header.sequence_number,
     wnd |-> tcp_header.window_size,
     up |-> FALSE]

\* tcp.rs:190-198, the RecvSequenceSpace literal of accept. The `+ 1` is
\* u32 addition: this is its value when it does not panic (the sum, or the
\* wrapped sum in a build without overflow checks).
accept_recv(tcp_header) ==
    [irs |-> tcp_header.sequence_number,
     nxt |-> WrappingAdd(tcp_header.sequence_number, 1),
     wnd |-> tcp_header.window_size,
     up |-> FALSE]

\* tcp.rs:194: `tcp_header.sequence_number() + 1` overflows u32.
accept_overflows(tcp_header) == AddOverflows(tcp_header.sequence_number, 1)

\* tcp.rs:201-206 and 226-228: TcpHeader::new(source_port, destination_port,
\* sequence_number, window_size) with every flag clear, then the
\* acknowledgement number and the SYN and ACK flags set.
accept_tcp(tcp_header, iss, wnd, recv) ==
    [source_port |-> tcp_header.destination_port,
     destination_port |-> tcp_header.source_port,
     sequence_number |-> iss,
     acknowledgment_number |-> recv.nxt,
     syn |-> TRUE, ack |-> TRUE, rst |-> FALSE, fin |-> FALSE,
     window_size |-> wnd]

\* accept_ip that copies the addresses without exchanging them.
accept_ip_unswapped(ipv4_header) ==
    [source |-> ipv4_header.source, destination |-> ipv4_header.destination]

\* tcp.rs:207-223: the IPv4 header of the reply, source and destination
\* swapped.
accept_ip(ipv4_header) ==
    [source |-> ipv4_header.destination, destination |-> ipv4_header.source]

\* tcp.rs:179-228: the Connection that accept builds for a segment.
accept_connection(ipv4_header, tcp_header) ==
    LET recv == accept_recv(tcp_header) IN
    [state |-> "SynRcvd",
     send |-> accept_send(ToU32(ISS), WND),
     recv |-> recv,
     tcp |-> accept_tcp(tcp_header, ToU32(ISS), WND, recv),
     ip |-> accept_ip(ipv4_header)]

\* tcp.rs:173: the test that lets accept go on to build a connection.
accept_proceeds(tcp_header) == tcp_header.syn

\* accept that drops the result of nic.send (no `?`) and returns the
\* connection whether or not the frame was written.
accept_ignores_send_error(nic_ok, ipv4_header, tcp_header, tcp_payload) ==
    IF ~accept_proceeds(tcp_header)
    THEN [kind |-> "ok", conn |-> {}, out |-> <<>>]
    ELSE IF overflow_checks /\ accept_overflows(tcp_header)
    THEN [kind |-> "panic", conn |-> {}, out |-> <<>>]
    ELSE LET connection == accept_connection(ipv4_header, tcp_header) IN
         [kind |-> "ok", conn |-> {connection},
          out |-> IF nic_ok
                  THEN <<[ip |-> connection.ip, tcp |-> connection.tcp]>>
                  ELSE <<>>]

\* tcp.rs:166-249, Connection::accept. nic_ok is whether nic.send succeeds.
\* The result: kind "ok" (Ok(..)), "err" (Err(..), from `?` on nic.send) or
\* "panic"; conn is the Option<Connection> returned; out is what nic.send
\* wrote.
accept(nic_ok, ipv4_header, tcp_header, tcp_payload) ==
    IF ~accept_proceeds(tcp_header)
    THEN [kind |-> "ok", conn |-> {}, out |-> <<>>]
    ELSE IF overflow_checks /\ accept_overflows(tcp_header)
    THEN [kind |-> "panic", conn |-> {}, out |-> <<>>]
    ELSE LET connection == accept_connection(ipv4_header, tcp_header) IN
         IF ~nic_ok
         THEN [kind |-> "err", conn |-> {}, out |-> <<>>]
         ELSE [kind |-> "ok", conn |-> {connection},
               out |-> <<[ip |-> connection.ip, tcp |-> connection.tcp]>>]

\* on_packet that closes the connection on RST and leaves the purge of the
\* entry to a caller that does not do it.
on_packet_rst_closes(connection, ipv4_header, tcp_header, tcp_payload) ==
    [kind |-> "ok",
     conn |-> {IF tcp_header.rst
               THEN [connection EXCEPT !.state = "Closed"]
               ELSE connection},
     out |-> <<>>]

\* on_packet that completes the handshake on any ACK, without testing the
\* segment's sequence number against the receive window.
on_packet_estab_unchecked(connection, ipv4_header, tcp_header, tcp_payload) ==
    [kind |-> "ok",
     conn |-> {IF connection.state = "SynRcvd" /\ tcp_header.ack
               THEN [connection EXCEPT !.state = "Estab"]
               ELSE connection},
     out |-> <<>>]

\* on_packet that takes recv.nxt from the segment (sequence number plus
\* payload length) without comparing it with the recv.nxt it has.
on_packet_nxt_from_seq(connection, ipv4_header, tcp_header, tcp_payload) ==
    [kind |-> "ok",
     conn |-> {[connection EXCEPT !.recv.nxt =
                   WrappingAdd(tcp_header.sequence_number, tcp_payload)]},
     out |-> <<>>]

\* tcp.rs:252-261, Connection::on_packet: the body is `Ok(())`. The result
\* has the shape of accept's; conn is the connection after the call.
on_packet(connection, ipv4_header, tcp_header, tcp_payload) ==
    [kind |-> "ok", conn |-> {connection}, out |-> <<>>]

-----------------------------------------------------------------------------
(* main.rs: the ingestion loop.                                            *)

\* What `last` records of one iteration: the branch taken, the decoded
\* headers and payload length (when the frame decoded as IPv4/TCP), the
\* table before the call, the number of frames sent before the call, and
\* whether nic.send was able to succeed.
Handled(op, hdr, nic_ok) ==
    [op |-> op, hdr |-> hdr, table |-> connections,
     nsent |-> Len(sent), nic_ok |-> nic_ok]

\* `last` at the top of the loop, before a frame is read.
NoFrame ==
    [op |-> "none", hdr |-> {}, table |-> <<>>, nsent |-> 0, nic_ok |-> TRUE]

\* The loop is at its top (main.rs:28), about to read a frame.
AtTop == status = "running" /\ last = NoFrame

\* main.rs:17-23: the state when the loop is entered.
Init ==
    /\ connections = <<>>
    /\ sent = <<>>
    /\ status = "running"
    /\ overflow_checks \in BOOLEAN
    /\ last = NoFrame

\* main.rs:26, the back edge of `loop`: the iteration is over and the loop
\* is at its top again. Nothing of the program's state changes.
NextFrame ==
    /\ status = "running"
    /\ last # NoFrame
    /\ last' = NoFrame
    /\ UNCHANGED <<connections, sent, status, overflow_checks>>

\* A drop that hands the failure to main's caller (a `?` in place of the
\* `continue` or the eprintln!).
Drop_propagates(op) ==
    /\ AtTop
    /\ status' = "io_error"
    /\ last' = Handled(op, {}, TRUE)
    /\ UNCHANGED <<connections, sent, overflow_checks>>

\* A frame the loop drops without calling the engine.
Drop(op) ==
    /\ AtTop
    /\ last' = Handled(op, {}, TRUE)
    /\ UNCHANGED <<connections, sent, status, overflow_checks>>

\* main.rs:28: `nic.recv(&mut buf[..])?` fails and main returns the error.
RecvError ==
    /\ AtTop
    /\ status' = "io_error"
    /\ last' = Handled("recv_error", {}, TRUE)
    /\ UNCHANGED <<connections, sent, overflow_checks>>

\* main.rs:35-41: the frame's protocol is not 0x0800.
SkipNotIpv4 == Drop("not_ipv4")

\* main.rs:60 and 104-106: Ipv4HeaderSlice::from_slice fails.
Ipv4ParseError == Drop("ipv4_parse_error")

\* main.rs:68-73: the IPv4 protocol is not 0x06.
SkipNotTcp == Drop("not_tcp")

\* main.rs:77 and 99-101: TcpHeaderSlice::from_slice fails.
TcpParseError == Drop("tcp_parse_error")

\* An entry test that takes every quad for vacant.
entry_is_always_vacant(q) == TRUE

\* main.rs:83-92, `connections.entry(..)` is Entry::Vacant.
entry_is_vacant(q) == q \notin DOMAIN connections

\* main.rs:88-90, Entry::Occupied: on_packet on the entry, in place; an Err
\* leaves main through `?`.
Occupied(ipv4_header, tcp_header, tcp_payload) ==
    LET q == Quad(ipv4_header, tcp_header) IN
    /\ AtTop
    /\ q \in DOMAIN connections
    /\ LET r == on_packet(connections[q], ipv4_header, tcp_header,
                          tcp_payload) IN
       /\ connections' = [connections EXCEPT ![q] = The(r.conn)]
       /\ sent' = sent \o r.out
       /\ status' = CASE r.kind = "ok" -> "running"
                      [] r.kind = "err" -> "io_error"
                      [] OTHER -> "panicked"
    /\ last' = Handled("occupied",
                       {[ip |-> ipv4_header, tcp |-> tcp_header,
                         len |-> tcp_payload]}, TRUE)
    /\ UNCHANGED overflow_checks

\* main.rs:92-96, Entry::Vacant: accept, and the insert when it returns a
\* connection; an Err leaves main through `?`.
Vacant(nic_ok, ipv4_header, tcp_header, tcp_payload) ==
    LET q == Quad(ipv4_header, tcp_header) IN
    /\ AtTop
    /\ entry_is_vacant(q)
    /\ LET r == accept(nic_ok, ipv4_header, tcp_header, tcp_payload) IN
       /\ connections' = IF r.kind = "ok" /\ r.conn # {}
                         THEN (q :> The(r.conn)) @@ connections
                         ELSE connections
       /\ sent' = sent \o r.out
       /\ status' = CASE r.kind = "ok" -> "running"
                      [] r.kind = "err" -> "io_error"
                      [] OTHER -> "panicked"
    /\ last' = Handled("vacant",
                       {[ip |-> ipv4_header, tcp |-> tcp_header,
                         len |-> tcp_payload]}, nic_ok)
    /\ UNCHANGED overflow_checks

\* main.rs:26-108: one iteration of the loop.
Next ==
    \/ RecvError
    \/ SkipNotIpv4
    \/ Ipv4ParseError
    \/ SkipNotTcp
    \/ TcpParseError
    \/ /\ AtTop
       /\ \E i \in Ipv4Headers, t \in TcpHeaders :
             \E n \in PayloadOf(t) : Occupied(i, t, n)
    \/ /\ AtTop
       /\ \E nic_ok \in BOOLEAN, i \in Ipv4Headers, t \in TcpHeaders :
             \E n \in PayloadOf(t) : Vacant(nic_ok, i, t, n)
    \/ NextFrame

Spec == Init /\ [][Next]_vars

-----------------------------------------------------------------------------
(* The claims. `last` holds the segment handled last, the entry of its     *)
(* quad before the call and the number of frames sent before the call.     *)

LastIp == The(last.hdr).ip
LastTcp == The(last.hdr).tcp
LastLen == The(last.hdr).len
LastQuad == Quad(LastIp, LastTcp)
\* The entry of the segment's quad before the call (when there was one).
Prev == last.table[LastQuad]
\* The frames sent by the call.
NewlySent == SubSeq(sent, last.nsent + 1, Len(sent))

\* Order of the sequence space, on differences mod 2^32.
IsZero32(d) == d = ToU32(0)
\* d < 2^31
InForwardHalf(d) == d[1] < Half \div 2
\* d <= e, as numbers
Leq32(d, e) == d[1] < e[1] \/ (d[1] = e[1] /\ d[2] <= e[2])
\* una < ackno <= nxt, wraparound-aware
AckCovers(una, ackno, nxt) ==
    /\ ~IsZero32(WrappingSub(ackno, una))
    /\ Leq32(WrappingSub(ackno, una), WrappingSub(nxt, una))
\* seq lies outside [recv.nxt, recv.nxt + recv.wnd), wraparound-aware
OutOfWindow(recv, seq) ==
    LET d == WrappingSub(seq, recv.nxt) IN d[1] > 0 \/ d[2] >= recv.wnd
\* The sequence space a segment occupies: payload, plus 1 for SYN and FIN.
SegSpace(tcp_header, len) ==
    len + (IF tcp_header.syn THEN 1 ELSE 0) + (IF tcp_header.fin THEN 1 ELSE 0)
\* The part of a segment's sequence space that is new (at or after
\* recv.nxt, contiguous with it) and inside the window.
NewInWindow(recv, tcp_header, len) ==
    LET behind == WrappingSub(recv.nxt, tcp_header.sequence_number)
        space == SegSpace(tcp_header, len)
    IN  IF behind[1] = 0 /\ behind[2] < space
        THEN IF space - behind[2] <= recv.wnd
             THEN space - behind[2] ELSE recv.wnd
        ELSE 0

\* C1: a bare SYN (SYN set, ACK clear) with sequence number S on a quad
\* that has no entry, when the interface takes the write: exactly one frame
\* is sent, it has SYN and ACK set, sequence number iss and acknowledgement
\* number S + 1, and the quad's entry is a connection in SynRcvd.
C1_PassiveOpen ==
    (last.op = "vacant" /\ last.nic_ok /\ LastTcp.syn /\ ~LastTcp.ack) =>
        /\ Len(NewlySent) = 1
        /\ LastQuad \in DOMAIN connections
        /\ connections[LastQuad].state = "SynRcvd"
        /\ NewlySent[1].tcp.syn /\ NewlySent[1].tcp.ack
        /\ NewlySent[1].tcp.sequence_number = connections[LastQuad].send.iss
        /\ NewlySent[1].tcp.acknowledgment_number =
               WrappingAdd(LastTcp.sequence_number, 1)

\* C2: a connection in SynRcvd that is handed a segment with only ACK set,
\* its sequence number recv.nxt and send.una < ack <= send.nxt, is in
\* Established after the call, and the call sends nothing.
C2_HandshakeCompletion ==
    (/\ last.op = "occupied"
     /\ Prev.state = "SynRcvd"
     /\ LastTcp.ack /\ ~LastTcp.syn /\ ~LastTcp.rst /\ ~LastTcp.fin
     /\ LastTcp.sequence_number = Prev.recv.nxt
     /\ AckCovers(Prev.send.una, LastTcp.acknowledgment_number, Prev.send.nxt))
    => /\ connections[LastQuad].state = "Estab"
       /\ NewlySent = <<>>

\* C3: a segment on a quad with no entry that is not a bare SYN (SYN clear,
\* or SYN and ACK both set) creates no entry and no frame is sent.
C3_AcceptOnlyBareSyn ==
    (last.op = "vacant" /\ ~(LastTcp.syn /\ ~LastTcp.ack)) =>
        /\ LastQuad \notin DOMAIN connections
        /\ NewlySent = <<>>

\* C4: a segment with RST set, handed to an entry whose state is neither
\* Closed nor Listen, leaves no entry for the quad.
C4_RstRemovesEntry ==
    (/\ last.op = "occupied"
     /\ Prev.state \notin {"Closed", "Listen"}
     /\ LastTcp.rst)
    => LastQuad \notin DOMAIN connections

\* C5: handling a segment that decoded as IPv4/TCP (the interface taking
\* every write) never ends the process: the loop is still running.
C5_NoSegmentEndsProcess ==
    (last.op \in {"occupied", "vacant"} /\ last.nic_ok) => status = "running"

\* C6: no entry of the connection table holds a connection in Closed.
C6_NoClosedEntry ==
    \A q \in DOMAIN connections : connections[q].state # "Closed"

\* C6 witness: an entry has been handed a segment with RST set, and the
\* table holds it.
C6_Witness ==
    /\ last.op = "occupied"
    /\ LastTcp.rst
    /\ LastQuad \in DOMAIN connections

\* C7: the connections of two distinct quads do not have the same iss.
C7_IssNotFixed ==
    \A q1, q2 \in DOMAIN connections :
        q1 # q2 => connections[q1].send.iss # connections[q2].send.iss

\* C8: a segment whose sequence number lies outside
\* [recv.nxt, recv.nxt + recv.wnd) leaves the connection's recv.nxt and
\* state as they were.
C8_OutOfWindowRejected ==
    (/\ last.op = "occupied"
     /\ OutOfWindow(Prev.recv, LastTcp.sequence_number))
    => /\ LastQuad \in DOMAIN connections
       /\ connections[LastQuad].recv.nxt = Prev.recv.nxt
       /\ connections[LastQuad].state = Prev.state

\* C8 witness: a connection in SynRcvd with an open window has been handed
\* an ACK whose sequence number is outside the window.
C8_Witness ==
    /\ last.op = "occupied"
    /\ Prev.state = "SynRcvd"
    /\ Prev.recv.wnd > 0
    /\ LastTcp.ack
    /\ OutOfWindow(Prev.recv, LastTcp.sequence_number)

\* C9: every connection of the table has send.una <= send.nxt in
\* sequence-space order: (send.nxt - send.una) mod 2^32 < 2^31.
C9_UnaLeqNxt ==
    \A q \in DOMAIN connections :
        InForwardHalf(WrappingSub(connections[q].send.nxt,
                                  connections[q].send.una))

\* C9 witness: a connection that accept created has since been handed an
\* acknowledgement.
C9_Witness ==
    /\ last.op = "occupied"
    /\ LastTcp.ack
    /\ LastQuad \in DOMAIN connections

\* C10: a handled segment leaves recv.nxt unchanged, or advances it by the
\* number of its new in-window units of sequence space (payload bytes, plus
\* 1 for SYN and for FIN); recv.nxt never moves backward.
C10_RecvNxtMonotonic ==
    last.op = "occupied" =>
        /\ LastQuad \in DOMAIN connections
        /\ LET d == WrappingSub(connections[LastQuad].recv.nxt, Prev.recv.nxt)
           IN  \/ IsZero32(d)
               \/ d = ToU32(NewInWindow(Prev.recv, LastTcp, LastLen))

\* C10 witness: a connection has been handed a segment that carries payload
\* and starts at recv.nxt, inside an open window.
C10_Witness ==
    /\ last.op = "occupied"
    /\ LastLen > 0
    /\ Prev.recv.wnd > 0
    /\ LastTcp.sequence_number = Prev.recv.nxt

\* The quad of the segment handled last, read off its headers.
SegQuad ==
    [src |-> <<LastIp.source, LastTcp.source_port>>,
     dst |-> <<LastIp.destination, LastTcp.destination_port>>]
\* The branches of the loop that drop a frame before the engine sees it.
DropOps == {"not_ipv4", "ipv4_parse_error", "not_tcp", "tcp_parse_error"}

\* C12: a segment for a quad that has an entry goes to the entry's segment
\* handler and not to accept: the entry stays, with the iss and irs it had,
\* and no SYN+ACK is sent for it.
C12_OneConnectionPerQuad ==
    (last.op \in {"occupied", "vacant"} /\ SegQuad \in DOMAIN last.table) =>
        /\ last.op = "occupied"
        /\ SegQuad \in DOMAIN connections
        /\ connections[SegQuad].send.iss = last.table[SegQuad].send.iss
        /\ connections[SegQuad].recv.irs = last.table[SegQuad].recv.irs
        /\ NewlySent = <<>>

\* C12 witness: a quad that has an entry has been sent another bare SYN,
\* with a sequence number that is not the entry's irs.
C12_Witness ==
    /\ last.op = "occupied"
    /\ LastTcp.syn /\ ~LastTcp.ack
    /\ LastTcp.sequence_number # Prev.recv.irs

\* C13: for every sequence number S of an inbound SYN on a quad with no
\* entry (the interface taking the write), accept succeeds: the process
\* runs on, the new connection has recv.nxt = (S + 1) mod 2^32 and the
\* SYN+ACK carries that value as its acknowledgement number.
C13_AcceptWraps ==
    (last.op = "vacant" /\ last.nic_ok /\ LastTcp.syn) =>
        /\ status = "running"
        /\ SegQuad \in DOMAIN connections
        /\ connections[SegQuad].recv.nxt =
               WrappingAdd(LastTcp.sequence_number, 1)
        /\ Len(NewlySent) = 1
        /\ NewlySent[1].tcp.acknowledgment_number =
               connections[SegQuad].recv.nxt

\* C14: after a successful accept of a SYN with sequence number S, the new
\* connection has send.una = iss, send.nxt = iss + 1, recv.irs = S and
\* recv.nxt = S + 1 (mod 2^32).
C14_SequenceSpacesAfterAccept ==
    (last.op = "vacant" /\ SegQuad \in DOMAIN connections) =>
        LET c == connections[SegQuad] IN
        /\ c.send.una = c.send.iss
        /\ c.send.nxt = WrappingAdd(c.send.iss, 1)
        /\ c.recv.irs = LastTcp.sequence_number
        /\ c.recv.nxt = WrappingAdd(LastTcp.sequence_number, 1)

\* C14 witness: accept has created a connection from a SYN.
C14_Witness ==
    /\ last.op = "vacant"
    /\ SegQuad \in DOMAIN connections
    /\ connections[SegQuad].recv.irs = ToU32(1)

\* C15: a frame that is not IPv4, not TCP, or whose IPv4 or TCP header does
\* not parse leaves the connection table as it was, sends nothing, and the
\* loop goes on.
C15_DropsHaveNoEffect ==
    last.op \in DropOps =>
        /\ connections = last.table
        /\ NewlySent = <<>>
        /\ status = "running"

\* C15 witness: with a connection in the table, a frame whose TCP header
\* does not parse has been dropped.
C15_Witness ==
    /\ last.op = "tcp_parse_error"
    /\ DOMAIN connections # {}

\* C16: the SYN+ACK goes back to the sender of the SYN: its source address
\* and port are the SYN's destination address and port, its destination
\* address and port the SYN's source address and port.
C16_SynAckAddressedBack ==
    (last.op = "vacant" /\ Len(NewlySent) = 1) =>
        /\ NewlySent[1].ip.source = LastIp.destination
        /\ NewlySent[1].tcp.source_port = LastTcp.destination_port
        /\ NewlySent[1].ip.destination = LastIp.source
        /\ NewlySent[1].tcp.destination_port = LastTcp.source_port

\* C16 witness: accept has sent a SYN+ACK.
C16_Witness ==
    /\ last.op = "vacant"
    /\ Len(NewlySent) = 1
    /\ NewlySent[1].tcp.syn /\ NewlySent[1].tcp.ack

\* C17: the window field of the SYN+ACK that accept sends equals the
\* recv.wnd of the connection it creates.
C17_AdvertisedWindowIsEnforced ==
    (/\ last.op = "vacant"
     /\ Len(NewlySent) = 1
     /\ SegQuad \in DOMAIN connections)
    => NewlySent[1].tcp.window_size = connections[SegQuad].recv.wnd

\* C18: when the write of the SYN+ACK fails, accept returns the I/O error,
\* no entry is inserted, and the table is the table before the call.
C18_FailedSendInsertsNothing ==
    (/\ last.op = "vacant"
     /\ LastTcp.syn
     /\ ~last.nic_ok
     /\ status # "panicked")
    => /\ status = "io_error"
       /\ SegQuad \notin DOMAIN connections
       /\ connections = last.table

\* C18 witness: with a connection in the table, the write of the SYN+ACK
\* for another quad has failed.
C18_Witness ==
    /\ last.op = "vacant"
    /\ LastTcp.syn
    /\ ~last.nic_ok
    /\ status = "io_error"
    /\ DOMAIN last.table # {}

\* C19: handling a segment for a quad leaves the entry of every other quad
\* as it was: none is inserted, removed or changed.
C19_IsolatedByQuad ==
    last.op \in {"occupied", "vacant"} =>
        /\ DOMAIN connections \ {SegQuad} = DOMAIN last.table \ {SegQuad}
        /\ \A q \in DOMAIN last.table \ {SegQuad} :
               connections[q] = last.table[q]

\* C19 witness: with another quad's connection in the table, a bare SYN has
\* created a connection for its own quad.
C19_Witness ==
    /\ last.op = "vacant"
    /\ SegQuad \in DOMAIN connections
    /\ DOMAIN last.table \ {SegQuad} # {}

=============================================================================
